---- MODULE Spec2Model ----
(***************************************************************************)
(* A model of the task-manager backend: the credential store (User         *)
(* documents), the auth routes (register, login, logout, Google OAuth      *)
(* callback, forgot/reset/change password), the profile route that sets    *)
(* the phone number, the request gate and the task controller.             *)
(*                                                                         *)
(* Time is counted in units of 15 minutes and every stored deadline is     *)
(* kept relative to the current instant: Date.now() is Now, and Tick lets  *)
(* one unit pass by ageing every deadline.  Optional string fields use the *)
(* string Undefined, optional dates use NoDate.  Mongoose applies the      *)
(* schema setters (trim, lowercase) both to stored values and to query     *)
(* filters; NormEmail models them.  The profile image is not modelled.     *)
(*                                                                         *)
(* resp is the response to the last request and outbox the notifications   *)
(* that request handed to the mail or SMS provider.  cookie is the session *)
(* token the client holds.  req is the forgot-password request in flight   *)
(* in the specification that runs that handler step by step.               *)
(***************************************************************************)
EXTENDS Integers, Sequences, FiniteSets, TLC

\* ------------------------------------------------------------------ bounds
MaxUsers == 2
MaxTokens == 2
MaxTasks == 2
MaxSuffix == 2
MaxInflight == 2

\* ------------------------------------------------- program constants
EmailTTL == 4
SmsTTL == 1
JwtTTL == 4
MinPwLen == 6
MinUsernameLen == 3

\* ------------------------------------------------------------ input sets
Undefined == "undefined"
NoDate == -1
Now == 0

Usernames == {"alice", "bob"}
RawEmails == {"a@x.com", "A@X.com", "b@x.com"}
PlainPws == {"abc", "secret1", "secret2"}
PwInputs == PlainPws \cup {Undefined}
Phones == {"+254700000001"}
UnknownPhone == "+254700000009"
GoogleIds == {"g1", "g2"}
SmsCodes == {"111111", "222222"}
Suffixes == {"0a1b"}
DisplayNames == {"ali ce", "Al"}
BogusCode == "000000"

\* -------------------------------------------------------------- messages
MsgEmailExists == "User with that email already exists"
MsgRegGoogle == "This email is registered via Google. Please use 'Sign in with Google' or your existing password."
MsgUsernameTaken == "Username already taken"
MsgRegistered == "Registration successful and logged in!"
MsgRegServerError == "Server error during registration."
MsgValidation == "ValidationError"
MsgInvalidCredentials == "Invalid credentials"
MsgGoogleLogin == "This account is linked to Google. Please sign in with Google."
MsgLoggedIn == "Logged in successfully!"
MsgLoggedOut == "Logged out successfully!"
MsgRedirect == "/tasks"
MsgOAuthError == "E11000 duplicate key error"
MsgNoToken == "Not authorized, no token"
MsgTokenFailed == "Not authorized, token failed"
MsgGateUserNotFound == "Not authorized, user not found"
MsgProfileUpdated == "Profile updated successfully!"
MsgForgotBadRequest == "Email or phone number, and a valid method (email/sms) are required."
MsgIfExistsEmail == "If an account with that email exists, a password reset link has been sent."
MsgIfExistsSms == "If an account with that sms exists, a password reset code has been sent."
MsgResetLinkSent == "Reset link sent successfully to your email."
MsgResetCodeSent == "Reset code sent successfully to your phone number."
MsgSendEmailFailed == "Failed to send reset email. Server error."
MsgSendSmsFailed == "Failed to send reset SMS. Server error."
MsgInvalidOrExpired == "Password reset token/code is invalid or has expired."
MsgGoogleReset == "This account is linked to Google. You cannot reset its password this way. Please sign in with Google."
MsgResetDone == "Password has been reset successfully."
MsgGoogleChange == "This account is linked to Google and does not have a local password. Please sign in with Google."
MsgCurrentIncorrect == "Current password is incorrect."
MsgChanged == "Password changed successfully."
MsgTaskCreated == "Task created successfully!"
MsgTaskUpdated == "Task updated successfully!"
MsgTaskRemoved == "Task removed successfully!"
MsgTaskNotFound == "Task not found"
MsgNotAuthorizedUpdate == "Not authorized to update this task"
MsgNotAuthorizedDelete == "Not authorized to delete this task"

VARIABLES users, cookie, resp, outbox, nextTok, tasks, nextTask, req, inflight

vars == <<users, cookie, resp, outbox, nextTok, tasks, nextTask, req, inflight>>

\* ------------------------------------------------------- schema helpers

\* The email setters of the schema: trim and lowercase.
NormEmail(e) == IF e = "A@X.com" THEN "a@x.com" ELSE e

PwLen(p) == IF p = "abc" THEN 3 ELSE 7

\* A password path that declares no minlength.
ValidPasswordNoMinlength(p) == TRUE

\* The minlength validator of the password path; validators other than
\* "required" do not run on an undefined value.
ValidPassword(p) == p = Undefined \/ PwLen(p) >= MinPwLen

UsernameLen(n) == IF n = "Al" THEN 2 ELSE 5

\* The minlength validator of the username path.
ValidUsername(n) == UsernameLen(n) >= MinUsernameLen

\* bcrypt.hash: a one-way, injective image of the plaintext.
Hash(p) == "$2a$" \o p

\* The earlier pre("save") hook: a modified, truthy password is hashed
\* unless it starts with "$2a$", "$2b$" or "$2y$".
PreSavePlaintextOnly(p) ==
    IF p /= Undefined /\ p /= "$2a$secret1" THEN Hash(p) ELSE p

\* The pre("save") hook: hash the password when it is modified and truthy.
\* (A path assigned the value it already holds is not modified: the callers
\* keep the stored value in that case.)
PreSavePassword(p) == IF p /= Undefined THEN Hash(p) ELSE p

matchPassword(u, entered) ==
    IF u.password = Undefined THEN FALSE ELSE u.password = Hash(entered)

\* user.googleId && !user.password, with the negation dropped.
IsGoogleOnlyNegationDropped(u) == u.googleId /= Undefined /\ u.password /= Undefined

\* user.googleId && !user.password
IsGoogleOnly(u) == u.googleId /= Undefined /\ u.password = Undefined

NewUser(un, em, pw, gid) ==
    [username |-> un, email |-> NormEmail(em), password |-> pw,
     phoneNumber |-> Undefined, googleId |-> gid,
     resetPasswordToken |-> Undefined, resetPasswordExpire |-> NoDate,
     verificationCode |-> Undefined, verificationCodeExpire |-> NoDate]

\* A store without unique indexes: no insert or update is refused.
NoUniqueIndex(doc) == FALSE

\* The unique indexes on username, email and (sparse) googleId.
DuplicateKey(doc) ==
    \E i \in DOMAIN users :
        \/ users[i].username = doc.username
        \/ users[i].email = doc.email
        \/ (doc.googleId /= Undefined /\ users[i].googleId = doc.googleId)

\* findOne returns one of the matching documents, or null (0).
FindOne(matches) == IF matches = {} THEN {0} ELSE matches

ByEmailIn(store, em) == {i \in DOMAIN store : store[i].email = NormEmail(em)}

ByEmail(em) == ByEmailIn(users, em)

\* ---------------------------------------------------------- session token
NoCookie == [id |-> 0, exp |-> 0]

generateToken(id) == [id |-> id, exp |-> Now + JwtTTL]

\* list is the array of tasks a listing answers with, empty elsewhere.
Response(op, status, msg) ==
    [op |-> op, status |-> status, msg |-> msg, list |-> << >>]

Idle == [pc |-> "idle", method |-> "", uid |-> 0, code |-> "", exp |-> NoDate]

\* The requests being served at the same time, each between two awaits:
\* the route, the await it has reached, the inputs it was called with and
\* what it has read so far.
Slots == 1..MaxInflight

\* doc is the document the request loaded, code the reset code it
\* presented, status the status it was answered with (0: not yet).
Request(op, pc, un, em, pw, gid, uid, k) ==
    [op |-> op, pc |-> pc, un |-> un, em |-> em, pw |-> pw, gid |-> gid,
     uid |-> uid, k |-> k, code |-> "", status |-> 0,
     doc |-> NewUser("", "", Undefined, Undefined)]

NoRequest == Request("none", "", "", "", "", "", 0, 0)

\* ------------------------------------------------------------------ Init
Init ==
    /\ users = << >>
    /\ cookie = NoCookie
    /\ resp = Response("init", 0, "")
    /\ outbox = {}
    /\ nextTok = 1
    /\ tasks = {}
    /\ nextTask = 1
    /\ req = Idle
    /\ inflight = [s \in Slots |-> NoRequest]

\* -------------------------------------------------------------- register

\* The conflict check on the document findOne returned (0: none): the
\* response that ends the request, or status 0 to go on and create the user.
RegisterConflict(found, un, em) ==
    IF found /= 0 /\ users[found].email = em
    THEN IF IsGoogleOnly(users[found])
         THEN Response("register", 400, MsgRegGoogle)
         ELSE Response("register", 400, MsgEmailExists)
    ELSE IF found /= 0 /\ users[found].username = un
         THEN Response("register", 400, MsgUsernameTaken)
         ELSE Response("register", 0, "")

Register(un, em, pw) ==
    /\ \E found \in FindOne({i \in DOMAIN users :
                            users[i].email = NormEmail(em) \/ users[i].username = un}) :
        LET conflict == RegisterConflict(found, un, em)
            doc == NewUser(un, em, PreSavePassword(pw), Undefined)
        IN  IF conflict.status /= 0
            THEN /\ resp' = conflict
                 /\ UNCHANGED <<users, cookie>>
            ELSE IF ~ValidPassword(pw)
            THEN /\ resp' = Response("register", 400, MsgValidation)
                 /\ UNCHANGED <<users, cookie>>
            ELSE IF DuplicateKey(doc)
            THEN /\ resp' = Response("register", 500, MsgRegServerError)
                 /\ UNCHANGED <<users, cookie>>
            ELSE /\ Len(users) < MaxUsers
                 /\ users' = Append(users, doc)
                 /\ cookie' = generateToken(Len(users) + 1)
                 /\ resp' = Response("register", 201, MsgRegistered)
    /\ outbox' = {}
    /\ UNCHANGED <<nextTok, tasks, nextTask, req, inflight>>

\* The register route of the earlier revision, on the earlier User model:
\* the password is required and goes through the earlier hook; the token is
\* returned in the body and no cookie is set.
RegisterEarlier(un, em, pw) ==
    /\ \E found \in FindOne({i \in DOMAIN users :
                            users[i].email = NormEmail(em) \/ users[i].username = un}) :
        LET doc == NewUser(un, em, PreSavePlaintextOnly(pw), Undefined)
        IN  IF found /= 0 /\ users[found].email = em
            THEN /\ resp' = Response("register", 400, MsgEmailExists)
                 /\ UNCHANGED users
            ELSE IF found /= 0 /\ users[found].username = un
            THEN /\ resp' = Response("register", 400, MsgUsernameTaken)
                 /\ UNCHANGED users
            ELSE IF pw = Undefined \/ ~ValidPassword(pw)
            THEN /\ resp' = Response("register", 400, MsgValidation)
                 /\ UNCHANGED users
            ELSE IF DuplicateKey(doc)
            THEN /\ resp' = Response("register", 500, MsgRegServerError)
                 /\ UNCHANGED users
            ELSE /\ Len(users) < MaxUsers
                 /\ users' = Append(users, doc)
                 /\ resp' = Response("register", 201, un)
    /\ outbox' = {}
    /\ UNCHANGED <<cookie, nextTok, tasks, nextTask, req, inflight>>

\* ----------------------------------------------------------------- login

\* The login route without its check for an account that has no password.
LoginResponseNoPasswordCheck(found, pw) ==
    IF found = 0 THEN Response("login", 400, MsgInvalidCredentials)
    ELSE IF ~matchPassword(users[found], pw)
    THEN Response("login", 400, MsgInvalidCredentials)
    ELSE Response("login", 200, MsgLoggedIn)

\* The response of the login route for the document findOne returned.
LoginResponse(found, pw) ==
    IF found = 0 THEN Response("login", 400, MsgInvalidCredentials)
    ELSE IF users[found].password = Undefined
    THEN Response("login", 400, MsgGoogleLogin)
    ELSE IF ~matchPassword(users[found], pw)
    THEN Response("login", 400, MsgInvalidCredentials)
    ELSE Response("login", 200, MsgLoggedIn)

Login(em, pw) ==
    /\ \E found \in FindOne(ByEmail(em)) :
        /\ resp' = LoginResponse(found, pw)
        /\ cookie' = IF LoginResponse(found, pw).status = 200
                     THEN generateToken(found) ELSE cookie
    /\ outbox' = {}
    /\ UNCHANGED <<users, nextTok, tasks, nextTask, req, inflight>>

\* A logout placed behind the gate: refused without a session cookie.
LogoutNeedsSession ==
    /\ resp' = IF cookie = NoCookie THEN Response("logout", 401, MsgNoToken)
               ELSE Response("logout", 200, MsgLoggedOut)
    /\ cookie' = NoCookie
    /\ outbox' = {}
    /\ UNCHANGED <<users, nextTok, tasks, nextTask, req, inflight>>

Logout ==
    /\ cookie' = NoCookie
    /\ resp' = Response("logout", 200, MsgLoggedOut)
    /\ outbox' = {}
    /\ UNCHANGED <<users, nextTok, tasks, nextTask, req, inflight>>

\* ---------------------------------------------------------- request gate

\* protect: the token of the request verifies, has not expired and names a
\* persisted user.
GateOk == cookie /= NoCookie /\ Now < cookie.exp /\ cookie.id \in DOMAIN users

\* protect rejecting a request to a protected route: 401, and the cookie is
\* cleared when verification of a presented token failed.
GateReject ==
    /\ ~GateOk
    /\ IF cookie = NoCookie
       THEN /\ resp' = Response("gate", 401, MsgNoToken)
            /\ UNCHANGED cookie
       ELSE IF Now >= cookie.exp
       THEN /\ resp' = Response("gate", 401, MsgTokenFailed)
            /\ cookie' = NoCookie
       ELSE /\ resp' = Response("gate", 401, MsgGateUserNotFound)
            /\ UNCHANGED cookie
    /\ outbox' = {}
    /\ UNCHANGED <<users, nextTok, tasks, nextTask, req, inflight>>

\* ---------------------------------------------------------- OAuth callback

\* displayName.replace(/\s/g, "")
StripSpaces(name) == IF name = "ali ce" THEN "alice" ELSE name

UsernameTaken(n) == \E i \in DOMAIN users : users[i].username = n

\* The collision loop: append a random suffix while the name is taken; k
\* bounds the number of iterations explored.
RECURSIVE UsernameLoop(_, _)
UsernameLoop(n, k) ==
    IF ~UsernameTaken(n) THEN {n}
    ELSE IF k = 0 THEN {}
    ELSE UNION {UsernameLoop(n \o s, k - 1) : s \in Suffixes}

\* The verify callback followed by the route: a user resolved gets the
\* cookie and the redirect; an error of save() goes to done(error) and is
\* answered 500.
OAuthCallback(gid, em, name) ==
    /\ \E byGoogle \in FindOne({i \in DOMAIN users : users[i].googleId = gid}) :
        IF byGoogle /= 0
        THEN /\ cookie' = generateToken(byGoogle)
             /\ resp' = Response("oauth", 302, MsgRedirect)
             /\ UNCHANGED users
        ELSE \E byMail \in FindOne(ByEmail(em)) :
            IF byMail /= 0
            THEN /\ users' = [users EXCEPT ![byMail].googleId = gid]
                 /\ cookie' = generateToken(byMail)
                 /\ resp' = Response("oauth", 302, MsgRedirect)
            ELSE \E un \in UsernameLoop(StripSpaces(name), MaxSuffix) :
                 IF ~ValidUsername(un)
                 THEN /\ resp' = Response("oauth", 500, MsgValidation)
                      /\ UNCHANGED <<users, cookie>>
                 ELSE /\ Len(users) < MaxUsers
                      /\ users' = Append(users, NewUser(un, em, Undefined, gid))
                      /\ cookie' = generateToken(Len(users) + 1)
                      /\ resp' = Response("oauth", 302, MsgRedirect)
    /\ outbox' = {}
    /\ UNCHANGED <<nextTok, tasks, nextTask, req, inflight>>

\* ------------------------------------------------------------ PUT /profile
UpdateProfile(phone) ==
    /\ GateOk
    /\ users' = [users EXCEPT ![cookie.id].phoneNumber = phone]
    /\ resp' = Response("profile", 200, MsgProfileUpdated)
    /\ outbox' = {}
    /\ UNCHANGED <<cookie, nextTok, tasks, nextTask, req, inflight>>

\* ---------------------------------------------------------- reset codes

\* crypto.randomBytes(20).toString("hex"): a value never generated before.
HexToken(n) == "tok" \o ToString(n)

ClearCodes(u) ==
    [u EXCEPT !.resetPasswordToken = Undefined, !.resetPasswordExpire = NoDate,
              !.verificationCode = Undefined, !.verificationCodeExpire = NoDate]

\* forgot-password that leaves the previous reset state in place.
ForgotClearSkipped(u) == u

\* forgot-password clears the previous reset state of both channels.
ForgotClear(u) == ClearCodes(u)

\* A catch block that saves the document without clearing the codes.
CatchClearSkipped(u) == u

\* The catch block of forgot-password clears both channels before it saves.
CatchClear(u) == ClearCodes(u)

\* reset-password clears both channels' code once the code was accepted.
ResetClear(u) == ClearCodes(u)

IssueEmailToken(u, t, exp) ==
    [u EXCEPT !.resetPasswordToken = t, !.resetPasswordExpire = exp]

IssueSmsCode(u, c, exp) ==
    [u EXCEPT !.verificationCode = c, !.verificationCodeExpire = exp]

ForgotLookupIn(store, method, contact) ==
    IF method = "email" THEN ByEmailIn(store, contact)
    ELSE {i \in DOMAIN store : store[i].phoneNumber = contact}

ForgotLookup(method, contact) == ForgotLookupIn(users, method, contact)

\* A not-found answer that tells the caller the contact is unknown.
ForgotNotFoundRevealing(method) == Response("forgot", 404, "User not found")

\* The generic answer given when no user matches the contact.
ForgotNotFound(method) ==
    Response("forgot", 200, IF method = "email" THEN MsgIfExistsEmail ELSE MsgIfExistsSms)

\* The answer given once the notification was handed to the provider.
ForgotSent(method) ==
    Response("forgot", 200, IF method = "email" THEN MsgResetLinkSent ELSE MsgResetCodeSent)

ForgotSendFailed(method) ==
    Response("forgot", 500, IF method = "email" THEN MsgSendEmailFailed ELSE MsgSendSmsFailed)

WellFormed(method, contact) == method \in {"email", "sms"} /\ contact /= Undefined

\* The response of forgot-password for the document findOne returned from
\* store (0: none), when the provider accepts (sendOk) or refuses the message.
ForgotResponse(store, found, method, sendOk) ==
    IF found = 0 THEN ForgotNotFound(method)
    ELSE IF IsGoogleOnly(store[found]) THEN Response("forgot", 400, MsgGoogleLogin)
    ELSE IF sendOk THEN ForgotSent(method)
    ELSE ForgotSendFailed(method)

\* Every response the request can get against store.
ForgotResponsesIn(store, method, contact, sendOk) ==
    {ForgotResponse(store, f, method, sendOk) :
        f \in FindOne(ForgotLookupIn(store, method, contact))}

\* The code the request generates, its deadline, and the document carrying it.
ForgotCode(method, smsCode) == IF method = "email" THEN HexToken(nextTok) ELSE smsCode

ForgotExpire(method) == IF method = "email" THEN Now + EmailTTL ELSE Now + SmsTTL

ForgotDoc(u, method, code, exp) ==
    IF method = "email"
    THEN IssueEmailToken(ForgotClear(u), code, exp)
    ELSE IssueSmsCode(ForgotClear(u), code, exp)

Notification(method, u, code) ==
    [method |-> method,
     to |-> IF method = "email" THEN u.email ELSE u.phoneNumber,
     code |-> code]

\* forgot-password as one request: lookup, issue, dispatch (sendOk tells
\* whether the provider accepted the message), respond, save.
ForgotPassword(method, contact, sendOk, smsCode) ==
    /\ IF ~WellFormed(method, contact)
       THEN /\ resp' = Response("forgot", 400, MsgForgotBadRequest)
            /\ outbox' = {}
            /\ UNCHANGED <<users, nextTok>>
       ELSE \E found \in FindOne(ForgotLookup(method, contact)) :
            /\ resp' = ForgotResponse(users, found, method, sendOk)
            /\ IF found = 0 \/ IsGoogleOnly(users[found])
               THEN /\ outbox' = {}
                    /\ UNCHANGED <<users, nextTok>>
               ELSE LET code == ForgotCode(method, smsCode)
                        doc == ForgotDoc(users[found], method, code, ForgotExpire(method))
                    IN  /\ method = "email" => nextTok <= MaxTokens
                        /\ nextTok' = IF method = "email" THEN nextTok + 1 ELSE nextTok
                        /\ IF sendOk
                           THEN /\ outbox' = {Notification(method, users[found], code)}
                                /\ users' = [users EXCEPT ![found] = doc]
                           ELSE /\ outbox' = {}
                                /\ users' = [users EXCEPT ![found] = CatchClear(doc)]
    /\ UNCHANGED <<cookie, tasks, nextTask, req, inflight>>

\* ------------------------------------- forgot-password, one await at a time

\* The request up to the call of the provider: lookup, then the code is set
\* on the document in memory.  A request that ends before that answers here.
ForgotBegin(method, contact, smsCode) ==
    /\ req.pc = "idle"
    /\ IF ~WellFormed(method, contact)
       THEN /\ resp' = Response("forgot", 400, MsgForgotBadRequest)
            /\ outbox' = {}
            /\ UNCHANGED <<nextTok, req>>
       ELSE \E found \in FindOne(ForgotLookup(method, contact)) :
            IF found = 0 \/ IsGoogleOnly(users[found])
            THEN /\ resp' = ForgotResponse(users, found, method, TRUE)
                 /\ outbox' = {}
                 /\ UNCHANGED <<nextTok, req>>
            ELSE /\ method = "email" => nextTok <= MaxTokens
                 /\ nextTok' = IF method = "email" THEN nextTok + 1 ELSE nextTok
                 /\ req' = [pc |-> "sending", method |-> method, uid |-> found,
                            code |-> ForgotCode(method, smsCode),
                            exp |-> ForgotExpire(method)]
                 /\ UNCHANGED <<resp, outbox>>
    /\ UNCHANGED <<users, cookie, tasks, nextTask, inflight>>

\* The provider answers.  Accepted: the 200 response is written and the save
\* is started.  Refused: the catch block is entered.
ForgotSendDone(sendOk) ==
    /\ req.pc = "sending"
    /\ IF sendOk
       THEN /\ outbox' = {Notification(req.method, users[req.uid], req.code)}
            /\ resp' = ForgotResponse(users, req.uid, req.method, TRUE)
            /\ req' = [req EXCEPT !.pc = "saving"]
       ELSE /\ req' = [req EXCEPT !.pc = "failed"]
            /\ UNCHANGED <<resp, outbox>>
    /\ UNCHANGED <<users, cookie, nextTok, tasks, nextTask, inflight>>

\* user.save() of the successful request completes.
ForgotSave ==
    /\ req.pc = "saving"
    /\ users' = [users EXCEPT ![req.uid] =
                    ForgotDoc(users[req.uid], req.method, req.code, req.exp)]
    /\ req' = Idle
    /\ UNCHANGED <<cookie, resp, outbox, nextTok, tasks, nextTask, inflight>>

\* The catch block: clear, save, then answer 500.
ForgotCatch ==
    /\ req.pc = "failed"
    /\ users' = [users EXCEPT ![req.uid] =
                    CatchClear(ForgotDoc(users[req.uid], req.method, req.code, req.exp))]
    /\ resp' = ForgotResponse(users, req.uid, req.method, FALSE)
    /\ outbox' = {}
    /\ req' = Idle
    /\ UNCHANGED <<cookie, nextTok, tasks, nextTask, inflight>>

\* --------------------------------------------------------- reset-password

\* A lookup that still accepts a token at its deadline.
ByResetTokenAtDeadline(t) ==
    {i \in DOMAIN users :
        users[i].resetPasswordToken = t /\ users[i].resetPasswordExpire >= Now}

ByResetToken(t) ==
    {i \in DOMAIN users :
        users[i].resetPasswordToken = t /\ users[i].resetPasswordExpire > Now}

ByVerificationCode(t) ==
    {i \in DOMAIN users :
        users[i].verificationCode = t /\ users[i].verificationCodeExpire > Now}

\* The email token is looked up first, the SMS code only when it finds none.
ResetLookup(t) ==
    IF ByResetToken(t) /= {} THEN ByResetToken(t) ELSE ByVerificationCode(t)

ResetPassword(token, newPw) ==
    /\ \E found \in FindOne(ResetLookup(token)) :
        IF found = 0
        THEN /\ resp' = Response("reset", 400, MsgInvalidOrExpired)
             /\ UNCHANGED users
        ELSE IF IsGoogleOnly(users[found])
        THEN /\ users' = [users EXCEPT ![found] = ClearCodes(users[found])]
             /\ resp' = Response("reset", 400, MsgGoogleReset)
        ELSE IF ~ValidPassword(newPw)
        THEN /\ resp' = Response("reset", 400, MsgValidation)
             /\ UNCHANGED users
        ELSE /\ users' = [users EXCEPT ![found] =
                             [ResetClear(users[found]) EXCEPT
                                  !.password = IF newPw = @ THEN @
                                               ELSE PreSavePassword(newPw)]]
             /\ resp' = Response("reset", 200, MsgResetDone)
    /\ outbox' = {}
    /\ UNCHANGED <<cookie, nextTok, tasks, nextTask, req, inflight>>

\* -------------------------------------------------------- change-password
ChangePassword(current, newPw) ==
    /\ GateOk
    /\ LET user == users[cookie.id]
       IN  IF IsGoogleOnly(user)
           THEN /\ resp' = Response("change", 400, MsgGoogleChange)
                /\ UNCHANGED users
           ELSE IF ~matchPassword(user, current)
           THEN /\ resp' = Response("change", 400, MsgCurrentIncorrect)
                /\ UNCHANGED users
           ELSE IF ~ValidPassword(newPw)
           THEN /\ resp' = Response("change", 400, MsgValidation)
                /\ UNCHANGED users
           ELSE /\ users' = [users EXCEPT ![cookie.id].password =
                                 IF newPw = @ THEN @ ELSE PreSavePassword(newPw)]
                /\ resp' = Response("change", 200, MsgChanged)
    /\ outbox' = {}
    /\ UNCHANGED <<cookie, nextTok, tasks, nextTask, req, inflight>>

\* ------------------------------------------------------------------ time

\* One unit of time passes: a deadline still ahead comes one unit closer.
Age(d) == IF d > Now THEN d - 1 ELSE d

Tick ==
    /\ users' = [i \in DOMAIN users |->
                    [users[i] EXCEPT !.resetPasswordExpire = Age(@),
                                     !.verificationCodeExpire = Age(@)]]
    /\ cookie' = [cookie EXCEPT !.exp = Age(@)]
    /\ req' = IF req.pc = "idle" THEN req ELSE [req EXCEPT !.exp = Age(@)]
    /\ inflight' = [s \in Slots |->
                        IF inflight[s].op = "token"
                        THEN [inflight[s] EXCEPT !.k = Age(@)] ELSE inflight[s]]
    /\ UNCHANGED <<resp, outbox, nextTok, tasks, nextTask>>

\* ------------------------------------------------------- task controller
NoDue == "null"
Body(title, description, dueDate, status) ==
    [title |-> title, description |-> description, dueDate |-> dueDate,
     status |-> status]

\* Request bodies of POST /api/tasks and PUT /api/tasks/:id.
CreateBodies ==
    {Body("T1", Undefined, Undefined, Undefined),
     Body("T2", "d1", "2025-01-01", "completed"),
     Body(Undefined, "d1", Undefined, Undefined),
     Body("", "d1", Undefined, Undefined),
     Body("T1", Undefined, "", "archived")}

UpdateBodies ==
    {Body(Undefined, Undefined, Undefined, Undefined),
     Body("T2", Undefined, Undefined, Undefined),
     Body("", Undefined, Undefined, Undefined),
     Body(Undefined, "d1", "2025-01-01", Undefined),
     Body(Undefined, Undefined, "", Undefined),
     Body(Undefined, Undefined, Undefined, "completed"),
     Body(Undefined, Undefined, Undefined, "archived")}

TaskIds == 1..(MaxTasks + 1)

\* new Date(dueDate)
ToDate(d) == d \o "T00:00:00.000Z"

\* dueDate ? new Date(dueDate) : null
DueValue(d) == IF d /= Undefined /\ d /= "" THEN ToDate(d) ELSE NoDue

\* The validators of the Task schema: title is required, status is one of
\* the enumerated values.
ValidTask(t) ==
    /\ t.title /= Undefined /\ t.title /= ""
    /\ t.status \in {"pending", "completed"}

\* An ownership check that lets every requester through.
OwnsTaskAlways(t, uid) == TRUE

\* task.user.toString() === req.user._id.toString()
OwnsTask(t, uid) == t.user = uid

\* A lookup that finds a task whatever the id asked for.
TaskByIdAny(id) == {t.id : t \in tasks}

\* Task.findById(req.params.id): the id of the task, or 0 when there is none.
TaskById(id) == {t.id : t \in {x \in tasks : x.id = id}}

\* A document fetched without regard to the id.
TaskDocAny(id) == CHOOSE t \in tasks : t.id /= id \/ Cardinality(tasks) = 1

TaskDoc(id) == CHOOSE t \in tasks : t.id = id

\* createdAt is the position of the task in the order of creation.
createTask(title, description, dueDate, status) ==
    /\ GateOk
    /\ nextTask <= MaxTasks
    /\ LET newTask == [id |-> nextTask, user |-> cookie.id, title |-> title,
                       description |-> description, dueDate |-> DueValue(dueDate),
                       status |-> IF status /= Undefined /\ status /= ""
                                  THEN status ELSE "pending",
                       createdAt |-> nextTask]
       IN  IF ValidTask(newTask)
           THEN /\ tasks' = tasks \cup {newTask}
                /\ nextTask' = nextTask + 1
                /\ resp' = Response("createTask", 201, MsgTaskCreated)
           ELSE /\ resp' = Response("createTask", 400, MsgValidation)
                /\ UNCHANGED <<tasks, nextTask>>
    /\ outbox' = {}
    /\ UNCHANGED <<users, cookie, nextTok, req, inflight>>

\* The fields of the request body that are not undefined are assigned.
ApplyUpdate(t, title, description, dueDate, status) ==
    [t EXCEPT !.title = IF title /= Undefined THEN title ELSE @,
              !.description = IF description /= Undefined THEN description ELSE @,
              !.dueDate = IF dueDate /= Undefined THEN DueValue(dueDate) ELSE @,
              !.status = IF status /= Undefined THEN status ELSE @]

\* On an error the response carries the status the controller set before it
\* threw and the message of the error.
updateTask(id, title, description, dueDate, status) ==
    /\ GateOk
    /\ \E found \in FindOne(TaskById(id)) :
        IF found = 0
        THEN /\ resp' = Response("updateTask", 404, MsgTaskNotFound)
             /\ UNCHANGED tasks
        ELSE IF ~OwnsTask(TaskDoc(found), cookie.id)
        THEN /\ resp' = Response("updateTask", 401, MsgNotAuthorizedUpdate)
             /\ UNCHANGED tasks
        ELSE LET updated == ApplyUpdate(TaskDoc(found), title, description, dueDate, status)
             IN  IF ValidTask(updated)
                 THEN /\ tasks' = (tasks \ {TaskDoc(found)}) \cup {updated}
                      /\ resp' = Response("updateTask", 200, MsgTaskUpdated)
                 ELSE /\ resp' = Response("updateTask", 400, MsgValidation)
                      /\ UNCHANGED tasks
    /\ outbox' = {}
    /\ UNCHANGED <<users, cookie, nextTok, nextTask, req, inflight>>

deleteTask(id) ==
    /\ GateOk
    /\ \E found \in FindOne(TaskById(id)) :
        IF found = 0
        THEN /\ resp' = Response("deleteTask", 404, MsgTaskNotFound)
             /\ UNCHANGED tasks
        ELSE IF ~OwnsTask(TaskDoc(found), cookie.id)
        THEN /\ resp' = Response("deleteTask", 401, MsgNotAuthorizedDelete)
             /\ UNCHANGED tasks
        ELSE /\ tasks' = tasks \ {TaskDoc(found)}
             /\ resp' = Response("deleteTask", 200, MsgTaskRemoved)
    /\ outbox' = {}
    /\ UNCHANGED <<users, cookie, nextTok, nextTask, req, inflight>>

\* ------------------------------- routes/tasks.js, mounted on /api/tasks

\* value || fallback
OrElse(value, fallback) == IF value /= Undefined /\ value /= "" THEN value ELSE fallback

\* POST /api/tasks: every error of save() is answered 500.
routeCreateTask(title, description, dueDate, status) ==
    /\ GateOk
    /\ nextTask <= MaxTasks
    /\ LET newTask == [id |-> nextTask, user |-> cookie.id, title |-> title,
                       description |-> description, dueDate |-> DueValue(dueDate),
                       status |-> OrElse(status, "pending"),
                       createdAt |-> nextTask]
       IN  IF ValidTask(newTask)
           THEN /\ tasks' = tasks \cup {newTask}
                /\ nextTask' = nextTask + 1
                /\ resp' = Response("routeCreate", 201, "")
           ELSE /\ resp' = Response("routeCreate", 500, "Server error")
                /\ UNCHANGED <<tasks, nextTask>>
    /\ outbox' = {}
    /\ UNCHANGED <<users, cookie, nextTok, req, inflight>>

\* A field of the body replaces the stored one only when it is truthy.
ApplyRouteUpdate(t, title, description, dueDate, status) ==
    [t EXCEPT !.title = OrElse(title, @),
              !.description = OrElse(description, @),
              !.dueDate = IF dueDate /= Undefined /\ dueDate /= "" THEN ToDate(dueDate) ELSE @,
              !.status = OrElse(status, @)]

\* PUT /api/tasks/:id
routeUpdateTask(id, title, description, dueDate, status) ==
    /\ GateOk
    /\ \E found \in FindOne(TaskById(id)) :
        IF found = 0
        THEN /\ resp' = Response("routeUpdate", 404, MsgTaskNotFound)
             /\ UNCHANGED tasks
        ELSE IF ~OwnsTask(TaskDoc(found), cookie.id)
        THEN /\ resp' = Response("routeUpdate", 401, MsgNotAuthorizedUpdate)
             /\ UNCHANGED tasks
        ELSE LET updated == ApplyRouteUpdate(TaskDoc(found), title, description, dueDate, status)
             IN  IF ValidTask(updated)
                 THEN /\ tasks' = (tasks \ {TaskDoc(found)}) \cup {updated}
                      /\ resp' = Response("routeUpdate", 200, "")
                 ELSE /\ resp' = Response("routeUpdate", 500, "Server error")
                      /\ UNCHANGED tasks
    /\ outbox' = {}
    /\ UNCHANGED <<users, cookie, nextTok, nextTask, req, inflight>>

\* DELETE /api/tasks/:id
routeDeleteTask(id) ==
    /\ GateOk
    /\ \E found \in FindOne(TaskById(id)) :
        IF found = 0
        THEN /\ resp' = Response("routeDelete", 404, MsgTaskNotFound)
             /\ UNCHANGED tasks
        ELSE IF ~OwnsTask(TaskDoc(found), cookie.id)
        THEN /\ resp' = Response("routeDelete", 401, MsgNotAuthorizedDelete)
             /\ UNCHANGED tasks
        ELSE /\ tasks' = tasks \ {TaskDoc(found)}
             /\ resp' = Response("routeDelete", 200, "Task removed")
    /\ outbox' = {}
    /\ UNCHANGED <<users, cookie, nextTok, nextTask, req, inflight>>

\* ----------------------------------------------------- GET /api/tasks

\* The characters of the texts that occur as titles, descriptions and
\* searches.
Chars(text) ==
    CASE text = "T1" -> <<"T", "1">>
      [] text = "T2" -> <<"T", "2">>
      [] text = "d1" -> <<"d", "1">>
      [] text = "t1" -> <<"t", "1">>
      [] text = "D" -> <<"D">>
      [] OTHER -> << >>

LowerChar(c) == CASE c = "T" -> "t" [] c = "D" -> "d" [] OTHER -> c

Lower(chars) == [i \in DOMAIN chars |-> LowerChar(chars[i])]

\* { field: { $regex: search, $options: "i" } } for a search without
\* metacharacters: the field exists and contains the search, letter case
\* aside.
RegexI(field, search) ==
    /\ field /= Undefined
    /\ LET h == Lower(Chars(field))
           n == Lower(Chars(search))
       IN  \E i \in 0..(Len(h) - Len(n)) : SubSeq(h, i + 1, i + Len(n)) = n

\* The query parameters of a listing.
StatusParams == {Undefined, "pending", "completed", "archived"}
SearchParams == {Undefined, "t1", "D"}

\* A filter that leaves out the owner.
TaskFilterNoOwner(uid, status, search) ==
    {t \in tasks :
        /\ status \in {"pending", "completed"} => t.status = status
        /\ (search /= Undefined /\ search /= "") =>
               RegexI(t.title, search) \/ RegexI(t.description, search)}

\* Task.find(filter) with the filter the handler builds.
TaskFilter(uid, status, search) ==
    {t \in tasks :
        /\ t.user = uid
        /\ status \in {"pending", "completed"} => t.status = status
        /\ (search /= Undefined /\ search /= "") =>
               RegexI(t.title, search) \/ RegexI(t.description, search)}

\* .sort({ createdAt: -1 })
RECURSIVE SortDesc(_)
SortDesc(S) ==
    IF S = {} THEN << >>
    ELSE LET newest == CHOOSE t \in S : \A o \in S : o.createdAt <= t.createdAt
         IN  <<newest>> \o SortDesc(S \ {newest})

getTasks(status, search) ==
    /\ GateOk
    /\ resp' = [Response("getTasks", 200, "Tasks fetched successfully")
                   EXCEPT !.list = SortDesc(TaskFilter(cookie.id, status, search))]
    /\ outbox' = {}
    /\ UNCHANGED <<users, cookie, nextTok, tasks, nextTask, req, inflight>>

\* The first of the two GET handlers of the router; the second is never
\* reached.
routeGetTasks(status, search) ==
    /\ GateOk
    /\ resp' = [Response("routeGet", 200, "")
                   EXCEPT !.list = SortDesc(TaskFilter(cookie.id, status, search))]
    /\ outbox' = {}
    /\ UNCHANGED <<users, cookie, nextTok, tasks, nextTask, req, inflight>>

\* ----------------------------------------- protect on a presented token

\* A token as a request presents it: the user id and expiry it carries and
\* whether its signature verifies under JWT_SECRET.
NoToken == [id |-> 0, exp |-> 0, sig |-> FALSE]

\* The token the server issued, as the client holds it in the cookie.
Signed(c) == IF c = NoCookie THEN NoToken ELSE [id |-> c.id, exp |-> c.exp, sig |-> TRUE]

\* A token the server did not sign.
ForgedToken == [id |-> 1, exp |-> JwtTTL, sig |-> FALSE]

\* The tokens a request can present: the one in the client's cookie jar, a
\* token the server has just signed for any persisted user, none, a forgery.
TokenInputs ==
    {Signed(cookie), NoToken, ForgedToken}
        \cup {Signed(generateToken(i)) : i \in DOMAIN users}

\* A gate that reads the Authorization header first.
RequestTokenBearerFirst(ck, bearer) == IF bearer /= NoToken THEN bearer ELSE ck

\* The cookie is read first, the Authorization header only without a cookie.
RequestToken(ck, bearer) == IF ck /= NoToken THEN ck ELSE bearer

GateOutcome(status, msg, user, clear) ==
    [status |-> status, msg |-> msg, user |-> user, clear |-> clear]

\* protect with jwt.decode in place of jwt.verify: signature and expiry
\* are not checked.
protectDecodeOnly(tok) ==
    IF tok = NoToken THEN GateOutcome(401, MsgNoToken, 0, FALSE)
    ELSE IF tok.id \notin DOMAIN users
    THEN GateOutcome(401, MsgGateUserNotFound, 0, FALSE)
    ELSE GateOutcome(0, "", tok.id, FALSE)

\* A gate that also wants a session the server has not logged out.
protectLiveSession(tok) ==
    IF tok = NoToken THEN GateOutcome(401, MsgNoToken, 0, FALSE)
    ELSE IF ~tok.sig \/ Now >= tok.exp \/ cookie = NoCookie
    THEN GateOutcome(401, MsgTokenFailed, 0, TRUE)
    ELSE IF tok.id \notin DOMAIN users
    THEN GateOutcome(401, MsgGateUserNotFound, 0, FALSE)
    ELSE GateOutcome(0, "", tok.id, FALSE)

\* protect: user is the id attached to the request when next() is called,
\* 0 when the gate answered; clear tells whether the cookie was cleared.
protect(tok) ==
    IF tok = NoToken THEN GateOutcome(401, MsgNoToken, 0, FALSE)
    ELSE IF ~tok.sig \/ Now >= tok.exp
    THEN GateOutcome(401, MsgTokenFailed, 0, TRUE)
    ELSE IF tok.id \notin DOMAIN users
    THEN GateOutcome(401, MsgGateUserNotFound, 0, FALSE)
    ELSE GateOutcome(0, "", tok.id, FALSE)

\* GET /api/auth/me behind protect, for a request carrying the cookie token
\* ck and the bearer token bearer.  The body names the user of the token.
GetMe(ck, bearer) ==
    /\ LET out == protect(RequestToken(ck, bearer))
       IN  IF out.user = 0
           THEN /\ resp' = Response("gate", out.status, out.msg)
                /\ cookie' = IF out.clear THEN NoCookie ELSE cookie
           ELSE /\ resp' = Response("me", 200, users[out.user].email)
                /\ UNCHANGED cookie
    /\ outbox' = {}
    /\ UNCHANGED <<users, nextTok, tasks, nextTask, req, inflight>>

\* ------------------------------ register and OAuth, one await at a time

\* The unique sparse index on googleId when user uid is saved with gid.
DuplicateGoogleId(uid, gid) ==
    \E j \in DOMAIN users : j /= uid /\ users[j].googleId = gid

\* register up to "await newUser.save()": the findOne and the conflict
\* check.  A request that found a conflict is answered here.
RegLookup(s, un, em, pw) ==
    /\ inflight[s] = NoRequest
    /\ \E found \in FindOne({i \in DOMAIN users :
                            users[i].email = NormEmail(em) \/ users[i].username = un}) :
        LET conflict == RegisterConflict(found, un, em)
        IN  IF conflict.status /= 0
            THEN /\ resp' = conflict
                 /\ outbox' = {}
                 /\ UNCHANGED inflight
            ELSE /\ inflight' = [inflight EXCEPT ![s] =
                                    Request("register", "save", un, em, pw, "", 0, 0)]
                 /\ UNCHANGED <<resp, outbox>>
    /\ UNCHANGED <<users, cookie, nextTok, tasks, nextTask, req>>

\* newUser.save() of register: validation, then the insert under the unique
\* indexes, then the cookie and the 201.
RegSave(s) ==
    /\ inflight[s].op = "register"
    /\ LET r == inflight[s]
           doc == NewUser(r.un, r.em, PreSavePassword(r.pw), Undefined)
       IN  IF ~ValidPassword(r.pw)
           THEN /\ resp' = Response("register", 400, MsgValidation)
                /\ UNCHANGED <<users, cookie>>
           ELSE IF DuplicateKey(doc)
           THEN /\ resp' = Response("register", 500, MsgRegServerError)
                /\ UNCHANGED <<users, cookie>>
           ELSE /\ Len(users) < MaxUsers
                /\ users' = Append(users, doc)
                /\ cookie' = generateToken(Len(users) + 1)
                /\ resp' = Response("register", 201, MsgRegistered)
    /\ inflight' = [inflight EXCEPT ![s] = NoRequest]
    /\ outbox' = {}
    /\ UNCHANGED <<nextTok, tasks, nextTask, req>>

\* The verify callback up to its first await: findOne by googleId.  A user
\* found there is returned and the route sets the cookie and redirects.
OAuthByGoogle(s, gid, em, name) ==
    /\ inflight[s] = NoRequest
    /\ \E byGoogle \in FindOne({i \in DOMAIN users : users[i].googleId = gid}) :
        IF byGoogle /= 0
        THEN /\ cookie' = generateToken(byGoogle)
             /\ resp' = Response("oauth", 302, MsgRedirect)
             /\ outbox' = {}
             /\ UNCHANGED inflight
        ELSE /\ inflight' = [inflight EXCEPT ![s] =
                                Request("oauth", "email", StripSpaces(name), em, "", gid, 0, 0)]
             /\ UNCHANGED <<cookie, resp, outbox>>
    /\ UNCHANGED <<users, nextTok, tasks, nextTask, req>>

\* findOne by email: a user found will be linked, none leads to the
\* username loop.
OAuthByEmail(s) ==
    /\ inflight[s].op = "oauth" /\ inflight[s].pc = "email"
    /\ \E byMail \in FindOne(ByEmail(inflight[s].em)) :
        inflight' = [inflight EXCEPT ![s].pc = IF byMail /= 0 THEN "link" ELSE "username",
                                     ![s].uid = byMail]
    /\ UNCHANGED <<users, cookie, resp, outbox, nextTok, tasks, nextTask, req>>

\* A loop that looks the same name up again without a suffix.
OAuthByUsernameSameName(s) ==
    /\ inflight[s].op = "oauth" /\ inflight[s].pc = "username"
    /\ IF UsernameTaken(inflight[s].un)
       THEN /\ inflight[s].k < MaxSuffix
            /\ inflight' = [inflight EXCEPT ![s].k = @ + 1]
       ELSE inflight' = [inflight EXCEPT ![s].pc = "create"]
    /\ UNCHANGED <<users, cookie, resp, outbox, nextTok, tasks, nextTask, req>>

\* One findOne by username of the collision loop: a taken name gets a
\* random suffix and is looked up again, a free one ends the loop.
OAuthByUsername(s) ==
    /\ inflight[s].op = "oauth" /\ inflight[s].pc = "username"
    /\ IF UsernameTaken(inflight[s].un)
       THEN /\ inflight[s].k < MaxSuffix
            /\ \E suffix \in Suffixes :
                inflight' = [inflight EXCEPT ![s].un = @ \o suffix, ![s].k = @ + 1]
       ELSE inflight' = [inflight EXCEPT ![s].pc = "create"]
    /\ UNCHANGED <<users, cookie, resp, outbox, nextTok, tasks, nextTask, req>>

\* user.save() of the link, or newUser.save() of the creation, under the
\* unique indexes; an error goes to done(error) and is answered 500.
OAuthSave(s) ==
    /\ inflight[s].op = "oauth" /\ inflight[s].pc \in {"link", "create"}
    /\ LET r == inflight[s]
           doc == NewUser(r.un, r.em, Undefined, r.gid)
       IN  IF r.pc = "link"
           THEN IF DuplicateGoogleId(r.uid, r.gid)
                THEN /\ resp' = Response("oauth", 500, MsgOAuthError)
                     /\ UNCHANGED <<users, cookie>>
                ELSE /\ users' = [users EXCEPT ![r.uid].googleId = r.gid]
                     /\ cookie' = generateToken(r.uid)
                     /\ resp' = Response("oauth", 302, MsgRedirect)
           ELSE IF ~ValidUsername(r.un)
                THEN /\ resp' = Response("oauth", 500, MsgValidation)
                     /\ UNCHANGED <<users, cookie>>
           ELSE IF DuplicateKey(doc)
                THEN /\ resp' = Response("oauth", 500, MsgOAuthError)
                     /\ UNCHANGED <<users, cookie>>
                ELSE /\ Len(users) < MaxUsers
                     /\ users' = Append(users, doc)
                     /\ cookie' = generateToken(Len(users) + 1)
                     /\ resp' = Response("oauth", 302, MsgRedirect)
    /\ inflight' = [inflight EXCEPT ![s] = NoRequest]
    /\ outbox' = {}
    /\ UNCHANGED <<nextTok, tasks, nextTask, req>>

\* ---------------------------------- reset-password, one await at a time

\* document.save(): the paths that were changed on the loaded document
\* are written, every other path keeps what the store holds.
SaveModified(current, loaded, edited) ==
    [f \in DOMAIN current |-> IF edited[f] /= loaded[f] THEN edited[f] ELSE current[f]]

\* reset-password up to "await user.save()": the lookups.  A request that
\* finds no user is answered here.
ResetFind(s, token, newPw) ==
    /\ inflight[s].pc \in {"", "answered"}
    /\ \E found \in FindOne(ResetLookup(token)) :
        IF found = 0
        THEN /\ resp' = Response("reset", 400, MsgInvalidOrExpired)
             /\ outbox' = {}
             /\ UNCHANGED inflight
        ELSE /\ inflight' = [inflight EXCEPT ![s] =
                    [Request("reset", IF IsGoogleOnly(users[found]) THEN "deny" ELSE "save",
                             "", "", newPw, "", found, 0)
                        EXCEPT !.code = token, !.doc = users[found]]]
             /\ UNCHANGED <<resp, outbox>>
    /\ UNCHANGED <<users, cookie, nextTok, tasks, nextTask, req>>

\* user.save() of reset-password and the response; the slot keeps the
\* answered request.
ResetWrite(s) ==
    /\ inflight[s].op = "reset" /\ inflight[s].pc \in {"deny", "save"}
    /\ LET r == inflight[s]
           edited == [ResetClear(r.doc) EXCEPT
                         !.password = IF r.pw = @ THEN @ ELSE PreSavePassword(r.pw)]
       IN  IF r.pc = "deny"
           THEN /\ users' = [users EXCEPT ![r.uid] = SaveModified(@, r.doc, ClearCodes(r.doc))]
                /\ resp' = Response("reset", 400, MsgGoogleReset)
           ELSE IF ~ValidPassword(r.pw)
           THEN /\ resp' = Response("reset", 400, MsgValidation)
                /\ UNCHANGED users
           ELSE /\ users' = [users EXCEPT ![r.uid] = SaveModified(@, r.doc, edited)]
                /\ resp' = Response("reset", 200, MsgResetDone)
    /\ inflight' = [inflight EXCEPT ![s].pc = "answered", ![s].status = resp'.status]
    /\ outbox' = {}
    /\ UNCHANGED <<cookie, nextTok, tasks, nextTask, req>>

\* ---------------------------- forgot-password requests served side by side

\* forgot-password up to the call of the provider: the lookup, and the code
\* and deadline the request sets on the document it loaded.  A request that
\* ends before that is answered here.
ForgotLoad(s, method, contact, smsCode) ==
    /\ inflight[s].pc \in {"", "answered"}
    /\ \E found \in FindOne(ForgotLookup(method, contact)) :
        IF found = 0 \/ IsGoogleOnly(users[found])
        THEN /\ resp' = ForgotResponse(users, found, method, TRUE)
             /\ outbox' = {}
             /\ UNCHANGED <<nextTok, inflight>>
        ELSE /\ method = "email" => nextTok <= MaxTokens
             /\ nextTok' = IF method = "email" THEN nextTok + 1 ELSE nextTok
             /\ inflight' = [inflight EXCEPT ![s] =
                    [Request("forgot", "sending", method, "", "", "", found,
                             ForgotExpire(method))
                        EXCEPT !.code = ForgotCode(method, smsCode), !.doc = users[found]]]
             /\ UNCHANGED <<resp, outbox>>
    /\ UNCHANGED <<users, cookie, tasks, nextTask, req>>

\* The provider answers and the document is saved: with the code when the
\* message was accepted, cleared by the catch block when it was refused.
\* save() writes the paths the request changed on the document it loaded.
ForgotWrite(s, sendOk) ==
    /\ inflight[s].op = "forgot" /\ inflight[s].pc = "sending"
    /\ LET r == inflight[s]
           doc == ForgotDoc(r.doc, r.un, r.code, r.k)
       IN  /\ users' = [users EXCEPT ![r.uid] =
                           SaveModified(@, r.doc, IF sendOk THEN doc ELSE CatchClear(doc))]
           /\ resp' = ForgotResponse(users, r.uid, r.un, sendOk)
           /\ outbox' = IF sendOk THEN {Notification(r.un, r.doc, r.code)} ELSE {}
    /\ inflight' = [inflight EXCEPT ![s].pc = "answered", ![s].status = resp'.status]
    /\ UNCHANGED <<cookie, nextTok, tasks, nextTask, req>>

\* ------------------------------------------- a session token kept aside

\* The client keeps a copy of the token it was issued (uid, k: the user it
\* names and the time it has left; pw: the password hash of the account at
\* that moment).
KeepToken(s) ==
    /\ cookie /= NoCookie /\ cookie.id \in DOMAIN users
    /\ inflight[s].op = "none"
    /\ inflight' = [inflight EXCEPT ![s] =
           Request("token", "held", "", "", users[cookie.id].password, "",
                   cookie.id, cookie.exp)]
    /\ UNCHANGED <<users, cookie, resp, outbox, nextTok, tasks, nextTask, req>>

\* GET /me with the kept token in the Authorization header and no cookie.
PresentKept(s) ==
    /\ inflight[s].op = "token"
    /\ GetMe(NoToken, [id |-> inflight[s].uid, exp |-> inflight[s].k, sig |-> TRUE])

\* -------------------------------------------------------- specifications
ResetInputs == {HexToken(n) : n \in 1..MaxTokens} \cup SmsCodes \cup {BogusCode}

\* Accounts and sessions, with every registration and sign-in input.
Next ==
    \/ \E un \in Usernames, em \in RawEmails, pw \in PwInputs : Register(un, em, pw)
    \/ \E em \in RawEmails, pw \in PlainPws : Login(em, pw)
    \/ Logout
    \/ GateReject
    \/ \E gid \in GoogleIds, em \in RawEmails, name \in DisplayNames :
           OAuthCallback(gid, em, name)
    \/ \E phone \in Phones : UpdateProfile(phone)
    \/ \E current \in PlainPws, newPw \in PwInputs : ChangePassword(current, newPw)
    \/ Tick

Spec == Init /\ [][Next]_vars

\* Password recovery on the accounts that one registration and the Google
\* sign-in create.
NextRecovery ==
    \/ Register("alice", "a@x.com", "secret1")
    \/ \E em \in {"a@x.com", "b@x.com"}, pw \in {"secret1", "secret2"} : Login(em, pw)
    \/ GateReject
    \/ \E em \in {"a@x.com", "b@x.com"} : OAuthCallback("g1", em, "ali ce")
    \/ \E phone \in Phones : UpdateProfile(phone)
    \/ \E contact \in RawEmails \cup {Undefined}, sendOk \in BOOLEAN :
           ForgotPassword("email", contact, sendOk, Undefined)
    \/ \E contact \in Phones \cup {UnknownPhone}, sendOk \in BOOLEAN, smsCode \in SmsCodes :
           ForgotPassword("sms", contact, sendOk, smsCode)
    \/ ForgotPassword("push", "a@x.com", TRUE, Undefined)
    \/ \E token \in ResetInputs, newPw \in PwInputs : ResetPassword(token, newPw)
    \/ ChangePassword("secret1", "secret2")
    \/ Tick

SpecRecovery == Init /\ [][NextRecovery]_vars

\* forgot-password running one await at a time beside other requests.
NextConc ==
    \/ Register("alice", "a@x.com", "secret1")
    \/ \E phone \in Phones : UpdateProfile(phone)
    \/ \E contact \in {"a@x.com", "b@x.com"} : ForgotBegin("email", contact, Undefined)
    \/ \E contact \in Phones, smsCode \in SmsCodes : ForgotBegin("sms", contact, smsCode)
    \/ \E sendOk \in BOOLEAN : ForgotSendDone(sendOk)
    \/ ForgotSave
    \/ ForgotCatch
    \/ \E token \in ResetInputs, newPw \in {"abc", "secret2"} : ResetPassword(token, newPw)
    \/ Tick

SpecConc == Init /\ [][NextConc]_vars

\* The task controller behind the gate, for two registered users.
NextTasks ==
    \/ Register("alice", "a@x.com", "secret1")
    \/ Register("bob", "b@x.com", "secret1")
    \/ \E em \in {"a@x.com", "b@x.com"} : Login(em, "secret1")
    \/ Logout
    \/ GateReject
    \/ \E b \in CreateBodies : createTask(b.title, b.description, b.dueDate, b.status)
    \/ \E id \in TaskIds, b \in UpdateBodies :
           updateTask(id, b.title, b.description, b.dueDate, b.status)
    \/ \E id \in TaskIds : deleteTask(id)
    \/ \E b \in CreateBodies : routeCreateTask(b.title, b.description, b.dueDate, b.status)
    \/ \E id \in TaskIds, b \in UpdateBodies :
           routeUpdateTask(id, b.title, b.description, b.dueDate, b.status)
    \/ \E id \in TaskIds : routeDeleteTask(id)

SpecTasks == Init /\ [][NextTasks]_vars

\* The request gate in front of GET /me and PUT /profile.
NextGate ==
    \/ Register("alice", "a@x.com", "secret1")
    \/ Register("bob", "b@x.com", "secret1")
    \/ \E em \in {"a@x.com", "b@x.com"}, pw \in {"secret1", "secret2"} : Login(em, pw)
    \/ Logout
    \/ \E ck \in TokenInputs, bearer \in TokenInputs : GetMe(ck, bearer)
    \/ \E phone \in Phones : UpdateProfile(phone)
    \/ Tick

SpecGate == Init /\ [][NextGate]_vars

\* Concurrent registrations and Google sign-ins.
NextRace ==
    \/ \E s \in Slots, un \in Usernames, em \in {"a@x.com", "b@x.com"} :
           RegLookup(s, un, em, "secret1")
    \/ \E s \in Slots : RegSave(s)
    \/ \E s \in Slots, gid \in GoogleIds, em \in {"a@x.com", "b@x.com"} :
           OAuthByGoogle(s, gid, em, "ali ce")
    \/ \E s \in Slots : OAuthByEmail(s)
    \/ \E s \in Slots : OAuthByUsername(s)
    \/ \E s \in Slots : OAuthSave(s)

SpecRace == Init /\ [][NextRace]_vars

\* Every lookup of the username loop that is pending gets its answer.
SpecRaceFair == SpecRace /\ \A s \in Slots : WF_vars(OAuthByUsername(s))

\* Concurrent reset-password requests after one email token was issued.
NextResetRace ==
    \/ Register("alice", "a@x.com", "secret1")
    \/ \E sendOk \in BOOLEAN : ForgotPassword("email", "a@x.com", sendOk, Undefined)
    \/ \E s \in Slots, token \in {HexToken(n) : n \in 1..MaxTokens} \cup {BogusCode},
          newPw \in {"abc", "secret2"} :
           ResetFind(s, token, newPw)
    \/ \E s \in Slots : ResetWrite(s)
    \/ Tick

SpecResetRace == Init /\ [][NextResetRace]_vars

\* Listing next to creation, update and deletion by two users.
NextList ==
    \/ Register("alice", "a@x.com", "secret1")
    \/ Register("bob", "b@x.com", "secret1")
    \/ \E em \in {"a@x.com", "b@x.com"} : Login(em, "secret1")
    \/ Logout
    \/ \E b \in CreateBodies : createTask(b.title, b.description, b.dueDate, b.status)
    \/ \E id \in TaskIds : updateTask(id, Undefined, Undefined, Undefined, "completed")
    \/ \E id \in TaskIds : routeUpdateTask(id, "T2", Undefined, Undefined, Undefined)
    \/ \E id \in TaskIds : deleteTask(id)
    \/ \E id \in TaskIds : routeDeleteTask(id)
    \/ \E st \in StatusParams, q \in SearchParams : getTasks(st, q)
    \/ \E st \in StatusParams, q \in SearchParams : routeGetTasks(st, q)

SpecList == Init /\ [][NextList]_vars

\* Overlapping forgot-password requests for one account with a phone number.
NextForgotRace ==
    \/ Register("alice", "a@x.com", "secret1")
    \/ \E phone \in Phones : UpdateProfile(phone)
    \/ \E s \in Slots : ForgotLoad(s, "email", "a@x.com", Undefined)
    \/ \E s \in Slots, phone \in Phones, smsCode \in SmsCodes :
           ForgotLoad(s, "sms", phone, smsCode)
    \/ \E s \in Slots, sendOk \in BOOLEAN : ForgotWrite(s, sendOk)

SpecForgotRace == Init /\ [][NextForgotRace]_vars

\* A kept session token, presented after logout and password changes.
NextSession ==
    \/ Register("alice", "a@x.com", "secret1")
    \/ \E pw \in {"secret1", "secret2"} : Login("a@x.com", pw)
    \/ \E s \in Slots : KeepToken(s)
    \/ Logout
    \/ ChangePassword("secret1", "secret2")
    \/ ForgotPassword("email", "a@x.com", TRUE, Undefined)
    \/ \E token \in {HexToken(n) : n \in 1..MaxTokens} : ResetPassword(token, "secret2")
    \/ \E s \in Slots : PresentKept(s)
    \/ Tick

SpecSession == Init /\ [][NextSession]_vars

\* Two accounts with a phone number each, both recovering their password.
CodePhones == Phones \cup {"+254700000002"}

NextCodes ==
    \/ Register("alice", "a@x.com", "secret1")
    \/ Register("bob", "b@x.com", "secret1")
    \/ \E phone \in CodePhones : UpdateProfile(phone)
    \/ \E phone \in CodePhones, smsCode \in SmsCodes :
           ForgotPassword("sms", phone, TRUE, smsCode)
    \/ \E em \in {"a@x.com", "b@x.com"} : ForgotPassword("email", em, TRUE, Undefined)
    \/ \E token \in ResetInputs : ResetPassword(token, "secret2")
    \/ Tick

SpecCodes == Init /\ [][NextCodes]_vars

\* Passwords set by registration (both revisions of the model), change and
\* reset, one of them a string that starts like a bcrypt hash.
NextPasswords ==
    \/ \E pw \in {"secret1", "secret2", "$2a$secret1", Undefined} :
           Register("alice", "a@x.com", pw)
    \/ \E pw \in {"secret1", "$2a$secret1", Undefined} :
           RegisterEarlier("bob", "b@x.com", pw)
    \/ \E em \in {"a@x.com", "b@x.com"}, pw \in {"secret1", "secret2", "$2a$secret1"} :
           Login(em, pw)
    \/ \E current \in {"secret1", "secret2"}, newPw \in {"secret2", "$2a$secret1"} :
           ChangePassword(current, newPw)
    \/ \E em \in {"a@x.com", "b@x.com"} : ForgotPassword("email", em, TRUE, Undefined)
    \/ \E token \in {HexToken(n) : n \in 1..MaxTokens}, newPw \in {"secret1", "$2a$secret1"} :
           ResetPassword(token, newPw)
    \/ Tick

SpecPasswords == Init /\ [][NextPasswords]_vars

\* ------------------------------------------------------------ properties

\* The store without its i-th document.
Remove(store, i) ==
    [j \in 1..(Len(store) - 1) |-> IF j < i THEN store[j] ELSE store[j + 1]]

HasCodes(u) ==
    \/ u.resetPasswordToken /= Undefined \/ u.resetPasswordExpire /= NoDate
    \/ u.verificationCode /= Undefined \/ u.verificationCodeExpire /= NoDate

\* C1: a registration whose email the store treats as equal to the email of
\* a persisted user is answered 400 with one of the two email-conflict
\* messages and leaves the persisted users unchanged, whatever the username.
C1_DuplicateEmailRejected ==
    [][\A un \in Usernames, em \in RawEmails, pw \in PwInputs :
          (resp'.op = "register" /\ ByEmail(em) /= {} /\ Register(un, em, pw)) =>
              /\ resp'.status = 400
              /\ resp'.msg \in {MsgEmailExists, MsgRegGoogle}
              /\ users' = users]_vars

\* C2: an account with a Google id and no password hash keeps having no
\* password hash in every step, and no login, change-password or
\* reset-password that reaches it is answered 200.
C2_GoogleOnlyNeverPassword ==
    [][\A i \in DOMAIN users :
          (users[i].googleId /= Undefined /\ users[i].password = Undefined) =>
              /\ users'[i].password = Undefined
              /\ \A em \in RawEmails, pw \in PlainPws :
                    (i \in ByEmail(em) /\ Login(em, pw)) => resp'.status /= 200
              /\ \A current \in PlainPws, newPw \in PwInputs :
                    (cookie.id = i /\ ChangePassword(current, newPw)) =>
                        resp'.status /= 200
              /\ \A token \in ResetInputs, newPw \in PwInputs :
                    (i \in ResetLookup(token) /\ ResetPassword(token, newPw)) =>
                        resp'.status /= 200]_vars

C2_Witness ==
    /\ resp = Response("change", 400, MsgGoogleChange)
    /\ cookie.id \in DOMAIN users
    /\ users[cookie.id].googleId /= Undefined
    /\ users[cookie.id].password = Undefined

\* C3: (issue) a forgot-password on the email channel answered with success
\* leaves a fresh token with a deadline one hour ahead on the account;
\* (use) reset-password with a token that a password account holds before
\* its deadline is answered 200, makes the supplied password the account's
\* password and removes the token; (reuse) reset-password with a token no
\* account holds live is answered "invalid or has expired" and changes
\* nothing, and a token that left the store never comes back.
C3_ResetRoundTrip ==
    [][/\ \A contact \in RawEmails :
            (ForgotPassword("email", contact, TRUE, Undefined)
                 /\ resp' = Response("forgot", 200, MsgResetLinkSent)) =>
                \E i \in ByEmail(contact) :
                    /\ users'[i].resetPasswordToken = HexToken(nextTok)
                    /\ users'[i].resetPasswordExpire = Now + EmailTTL
       /\ \A token \in ResetInputs, newPw \in PwInputs, i \in DOMAIN users :
            (/\ users[i].resetPasswordToken = token
             /\ users[i].resetPasswordExpire > Now
             /\ users[i].password /= Undefined
             /\ ResetPassword(token, newPw)) =>
                /\ resp' = Response("reset", 200, MsgResetDone)
                /\ matchPassword(users'[i], newPw)
                /\ users'[i].resetPasswordToken = Undefined
       /\ \A token \in ResetInputs, newPw \in PwInputs :
            (ResetLookup(token) = {} /\ ResetPassword(token, newPw)) =>
                /\ resp' = Response("reset", 400, MsgInvalidOrExpired)
                /\ users' = users
       /\ \A n \in 1..MaxTokens, i \in DOMAIN users' :
            users'[i].resetPasswordToken = HexToken(n) =>
                \/ i \in DOMAIN users /\ users[i].resetPasswordToken = HexToken(n)
                \/ n = nextTok /\ nextTok' = nextTok + 1]_vars

\* C4: when forgot-password answers 500 because the provider refused the
\* message, the account it was for has neither pair set, and no account holds
\* the token generated for the request.
C4_DispatchFailureLeavesNoCode ==
    [][/\ \A contact \in RawEmails :
            (ForgotPassword("email", contact, FALSE, Undefined)
                 /\ resp'.op = "forgot" /\ resp'.status = 500) =>
                /\ \A i \in ByEmail(contact) : ~HasCodes(users'[i])
                /\ \A i \in DOMAIN users' :
                       users'[i].resetPasswordToken /= HexToken(nextTok)
       /\ \A contact \in Phones, smsCode \in SmsCodes :
            (ForgotPassword("sms", contact, FALSE, smsCode)
                 /\ resp'.op = "forgot" /\ resp'.status = 500) =>
                \A i \in ForgotLookup("sms", contact) : ~HasCodes(users'[i])]_vars

C4_Witness ==
    /\ resp = Response("forgot", 500, MsgSendSmsFailed)
    /\ nextTok > 1
    /\ \E i \in DOMAIN users : users[i].phoneNumber \in Phones /\ ~HasCodes(users[i])

\* C5: whenever the last request was a forgot-password that reported
\* success and dispatched a notification, the code the notification carries
\* is stored on a user.
C5_CodePersistedWhenDispatched ==
    (resp.op = "forgot" /\ resp.status = 200 /\ outbox /= {}) =>
        \A n \in outbox :
            \E i \in DOMAIN users :
                \/ users[i].resetPasswordToken = n.code
                \/ users[i].verificationCode = n.code

\* C6: no user has the email token/expiry pair and the SMS code/expiry pair
\* set at the same time.
C6_OneLiveCode ==
    \A i \in DOMAIN users :
        ~(/\ users[i].resetPasswordToken /= Undefined \/ users[i].resetPasswordExpire /= NoDate
          /\ users[i].verificationCode /= Undefined \/ users[i].verificationCodeExpire /= NoDate)

C6_Witness ==
    /\ resp = Response("forgot", 200, MsgResetCodeSent)
    /\ nextTok > 1
    /\ \E i \in DOMAIN users :
           users[i].verificationCode /= Undefined /\ users[i].resetPasswordToken = Undefined

\* C7: a forgot-password with a valid method and a contact that matches no
\* user is answered 200 with the generic message of the method, dispatches
\* nothing and changes no user.
C7_ForgotUnknownContact ==
    [][/\ \A contact \in RawEmails, sendOk \in BOOLEAN :
            (ByEmail(contact) = {} /\ ForgotPassword("email", contact, sendOk, Undefined)) =>
                /\ resp' = Response("forgot", 200, MsgIfExistsEmail)
                /\ outbox' = {}
                /\ users' = users
       /\ \A contact \in Phones \cup {UnknownPhone}, sendOk \in BOOLEAN, smsCode \in SmsCodes :
            (ForgotLookup("sms", contact) = {}
                 /\ ForgotPassword("sms", contact, sendOk, smsCode)) =>
                /\ resp' = Response("forgot", 200, MsgIfExistsSms)
                /\ outbox' = {}
                /\ users' = users]_vars

C7_Witness ==
    /\ resp = Response("forgot", 200, MsgIfExistsEmail)
    /\ outbox = {}
    /\ Len(users) > 0

\* C8: for every password account and every request naming its contact, the
\* responses the request can get against the store equal the responses it can
\* get against the store without that account.
C8_ForgotHidesExistence ==
    \A i \in DOMAIN users, sendOk \in BOOLEAN :
        users[i].password /= Undefined =>
            /\ ForgotResponsesIn(users, "email", users[i].email, sendOk)
                   = ForgotResponsesIn(Remove(users, i), "email", users[i].email, sendOk)
            /\ users[i].phoneNumber /= Undefined =>
                   ForgotResponsesIn(users, "sms", users[i].phoneNumber, sendOk)
                       = ForgotResponsesIn(Remove(users, i), "sms", users[i].phoneNumber, sendOk)

\* C9: a login naming an account that has no password hash is answered 400
\* with the Google sign-in message for every password, and the session
\* cookie is left as it was.
C9_LoginWithoutPasswordHash ==
    [][\A em \in RawEmails, pw \in PlainPws :
          (/\ resp'.op = "login"
           /\ \E i \in ByEmail(em) : users[i].password = Undefined
           /\ Login(em, pw)) =>
              /\ resp' = Response("login", 400, MsgGoogleLogin)
              /\ cookie' = cookie]_vars

C9_Witness ==
    /\ resp = Response("login", 400, MsgGoogleLogin)
    /\ \E i \in DOMAIN users : users[i].password = Undefined

\* C10: an update or a delete of a task by an authenticated user who is not
\* its owner is answered 401 with the not-authorized message and leaves the
\* set of tasks as it was.
C10_TaskOwnership ==
    [][\A t \in tasks :
          (GateOk /\ t.user /= cookie.id) =>
              /\ \A b \in UpdateBodies :
                    updateTask(t.id, b.title, b.description, b.dueDate, b.status) =>
                        /\ resp' = Response("updateTask", 401, MsgNotAuthorizedUpdate)
                        /\ tasks' = tasks
              /\ deleteTask(t.id) =>
                    /\ resp' = Response("deleteTask", 401, MsgNotAuthorizedDelete)
                    /\ tasks' = tasks]_vars

C10_Witness ==
    /\ resp = Response("updateTask", 401, MsgNotAuthorizedUpdate)
    /\ \E t \in tasks : t.user /= cookie.id

C10_WitnessDelete ==
    /\ resp = Response("deleteTask", 401, MsgNotAuthorizedDelete)
    /\ \E t \in tasks : t.user /= cookie.id

\* C11: the handler behind the gate runs exactly when the token the gate
\* reads (the cookie's, else the header's) is present, carries a valid
\* signature, has not expired and names a persisted user; otherwise the
\* gate answers 401 and nothing persisted changes.  A handler reached with
\* the cookie alone runs only under a cookie that is unexpired and names a
\* persisted user.
C11_GateGuardsHandler ==
    [][/\ \A ck \in TokenInputs, bearer \in TokenInputs :
            GetMe(ck, bearer) =>
                LET tok == IF ck /= NoToken THEN ck ELSE bearer
                IN  IF /\ tok /= NoToken /\ tok.sig
                       /\ Now < tok.exp /\ tok.id \in DOMAIN users
                    THEN resp' = Response("me", 200, users[tok.id].email)
                    ELSE /\ resp'.op = "gate" /\ resp'.status = 401
                         /\ users' = users /\ tasks' = tasks
       /\ resp'.op = "profile" =>
            /\ cookie /= NoCookie /\ Now < cookie.exp
            /\ cookie.id \in DOMAIN users]_vars

C11_Witness ==
    /\ resp = Response("gate", 401, MsgTokenFailed)
    /\ Len(users) > 0
    /\ cookie = NoCookie

\* C12: no two persisted users have the same username, the same email or
\* the same Google id.
C12_UniqueIdentities ==
    \A i, j \in DOMAIN users :
        i /= j =>
            /\ users[i].username /= users[j].username
            /\ users[i].email /= users[j].email
            /\ users[i].googleId /= Undefined => users[i].googleId /= users[j].googleId

C12_Witness ==
    /\ resp = Response("register", 500, MsgRegServerError)
    /\ Len(users) = 1
    /\ \E s \in Slots : inflight[s].op = "oauth"

\* C13: no two reset-password requests that presented the same code were
\* both answered 200.
C13_CodeSingleUse ==
    \A s, t \in Slots :
        (/\ s /= t
         /\ inflight[s].op = "reset" /\ inflight[s].pc = "answered"
         /\ inflight[t].op = "reset" /\ inflight[t].pc = "answered"
         /\ inflight[s].status = 200 /\ inflight[t].status = 200) =>
            inflight[s].code /= inflight[t].code

\* C14: the OAuth callback for (g, e) returns the user that has Google id
\* g and changes no user; else it returns the user that has email e, with
\* g set as its Google id and nothing else changed; else it appends one
\* user with Google id g and email e and returns it.
C14_OAuthResolution ==
    [][\A gid \in GoogleIds, em \in RawEmails, name \in DisplayNames :
          OAuthCallback(gid, em, name) =>
              IF \E i \in DOMAIN users : users[i].googleId = gid
              THEN /\ users' = users
                   /\ cookie'.id \in DOMAIN users
                   /\ users[cookie'.id].googleId = gid
              ELSE IF ByEmail(em) /= {}
              THEN \E i \in ByEmail(em) :
                       /\ users' = [users EXCEPT ![i].googleId = gid]
                       /\ cookie'.id = i
              ELSE /\ Len(users') = Len(users) + 1
                   /\ users' = Append(users, users'[Len(users')])
                   /\ users'[Len(users')].googleId = gid
                   /\ users'[Len(users')].email = NormEmail(em)
                   /\ cookie'.id = Len(users')]_vars

\* C15: a create persists a task exactly when a title is supplied; without
\* a title it is answered 400 and persists nothing, with a title it is
\* answered 201 and persists a task of the requester, pending when no
\* status is supplied and with a null due date when none is supplied.
C15_CreateIffTitle ==
    [][\A b \in CreateBodies :
          (\/ createTask(b.title, b.description, b.dueDate, b.status)
           \/ routeCreateTask(b.title, b.description, b.dueDate, b.status)) =>
              IF b.title = Undefined
              THEN /\ resp'.status = 400
                   /\ tasks' = tasks
              ELSE /\ resp'.status = 201
                   /\ \E t \in tasks' \ tasks :
                         /\ tasks' = tasks \cup {t}
                         /\ t.user = cookie.id
                         /\ t.title = b.title
                         /\ b.status = Undefined => t.status = "pending"
                         /\ b.dueDate = Undefined => t.dueDate = NoDue]_vars

\* C16: an update answered 200 leaves the task with, for each of title,
\* description, dueDate and status, the value of the request when the
\* request has the field (an empty value included) and the previous value
\* when it has not; id, owner and creation time stay, and so does every
\* other task.
C16_UpdateSuppliedFields ==
    [][\A id \in TaskIds, b \in UpdateBodies :
          (/\ resp'.status = 200
           /\ \/ updateTask(id, b.title, b.description, b.dueDate, b.status)
              \/ routeUpdateTask(id, b.title, b.description, b.dueDate, b.status)) =>
              \E t \in tasks :
                  /\ t.id = id
                  /\ t.user = cookie.id
                  /\ tasks' = (tasks \ {t}) \cup
                       {[id |-> t.id, user |-> t.user, createdAt |-> t.createdAt,
                         title |-> IF b.title = Undefined THEN t.title ELSE b.title,
                         description |-> IF b.description = Undefined
                                         THEN t.description ELSE b.description,
                         dueDate |-> IF b.dueDate = Undefined THEN t.dueDate
                                     ELSE IF b.dueDate = "" THEN NoDue
                                     ELSE ToDate(b.dueDate),
                         status |-> IF b.status = Undefined THEN t.status
                                    ELSE b.status]}]_vars

C18_DeletedStaysGone ==
    [][\A id \in TaskIds :
          /\ (resp'.status = 200 /\ (deleteTask(id) \/ routeDeleteTask(id))) =>
                 /\ id < nextTask'
                 /\ \A t \in tasks' : t.id /= id
          /\ (id < nextTask /\ \A t \in tasks : t.id /= id) =>
                 /\ \A t \in tasks' : t.id /= id
                 /\ \A i \in DOMAIN resp'.list : resp'.list[i].id /= id
                 /\ (\/ deleteTask(id) \/ routeDeleteTask(id)
                     \/ updateTask(id, Undefined, Undefined, Undefined, "completed")
                     \/ routeUpdateTask(id, "T2", Undefined, Undefined, Undefined)) =>
                        resp'.status = 404]_vars

C18_Witness ==
    /\ resp.op = "routeUpdate" /\ resp.status = 404
    /\ nextTask = 3
    /\ \A t \in tasks : t.id /= 1

\* C19: a listing with status parameter st and search q answers 200 with
\* each stored task of the requester that has status st, when st is pending
\* or completed, and whose title or description contains q, when q is
\* given, exactly once, newest first, and with no other task; any other
\* value of st does not filter.
C19_ListOwnFilteredSorted ==
    [][\A st \in StatusParams, q \in SearchParams :
          (getTasks(st, q) \/ routeGetTasks(st, q)) =>
              LET list == resp'.list
              IN  /\ resp'.status = 200
                  /\ \A t \in tasks :
                        (\E i \in DOMAIN list : list[i] = t) <=>
                            /\ t.user = cookie.id
                            /\ st = "pending" => t.status = "pending"
                            /\ st = "completed" => t.status = "completed"
                            /\ q /= Undefined =>
                                  RegexI(t.title, q) \/ RegexI(t.description, q)
                  /\ \A i \in DOMAIN list : list[i] \in tasks /\ list[i].user = cookie.id
                  /\ \A i, j \in DOMAIN list :
                        i < j => list[i].createdAt > list[j].createdAt
                  /\ tasks' = tasks]_vars

C19_Witness ==
    /\ resp.op = "getTasks"
    /\ Len(resp.list) = 1
    /\ \E t \in tasks : t.user /= cookie.id
    /\ \E t \in tasks : t.user = cookie.id

C19_WitnessOrder ==
    /\ resp.op = "routeGet"
    /\ Len(resp.list) = 2

\* C20: logout can be called in every state, with a session cookie or
\* without; it answers 200 with the success message, leaves no session
\* cookie and changes no user and no task.  What it leaves depends on
\* nothing it reads, so a second call answers the same and leaves the same
\* state.
C20_LogoutIdempotent ==
    /\ [](ENABLED Logout)
    /\ [][resp'.op = "logout" =>
             /\ resp' = Response("logout", 200, MsgLoggedOut)
             /\ cookie' = NoCookie
             /\ outbox' = {}
             /\ UNCHANGED <<users, tasks, nextTok, nextTask, req, inflight>>]_vars
    /\ [][(resp.op = "logout" /\ resp'.op = "logout") => UNCHANGED vars]_vars

C20_Witness ==
    /\ resp = Response("logout", 200, MsgLoggedOut)
    /\ cookie = NoCookie
    /\ Len(users) = 2
    /\ tasks /= {}

\* C21: a code comes onto an account, or its deadline moves away, only by a
\* forgot-password answered with success, and the deadline is then one
\* hour ahead (email) or fifteen minutes ahead (SMS); reset-password
\* changes a password only with a code some account holds with its deadline strictly ahead, and with any
\* other code it is answered "invalid or has expired" and changes nothing.
C21_CodeDeadline ==
    [][/\ \A i \in DOMAIN users :
            /\ (/\ users'[i].resetPasswordToken /= Undefined
                /\ \/ users'[i].resetPasswordToken /= users[i].resetPasswordToken
                   \/ users'[i].resetPasswordExpire > users[i].resetPasswordExpire) =>
                   /\ users'[i].resetPasswordExpire = Now + EmailTTL
                   /\ resp' = Response("forgot", 200, MsgResetLinkSent)
            /\ (/\ users'[i].verificationCode /= Undefined
                /\ \/ users'[i].verificationCode /= users[i].verificationCode
                   \/ users'[i].verificationCodeExpire > users[i].verificationCodeExpire) =>
                   /\ users'[i].verificationCodeExpire = Now + SmsTTL
                   /\ resp' = Response("forgot", 200, MsgResetCodeSent)
       /\ resp'.op = "reset" =>
            \A token \in ResetInputs, newPw \in PwInputs :
                ResetPassword(token, newPw) =>
                    IF \E i \in DOMAIN users :
                           \/ /\ users[i].resetPasswordToken = token
                              /\ users[i].resetPasswordExpire > Now
                           \/ /\ users[i].verificationCode = token
                              /\ users[i].verificationCodeExpire > Now
                    THEN resp' /= Response("reset", 400, MsgInvalidOrExpired)
                    ELSE /\ resp' = Response("reset", 400, MsgInvalidOrExpired)
                         /\ users' = users]_vars

C21_Witness ==
    /\ resp = Response("reset", 400, MsgInvalidOrExpired)
    /\ \E i \in DOMAIN users :
           /\ users[i].resetPasswordToken /= Undefined
           /\ users[i].resetPasswordExpire = Now

C23_NeverBothLive ==
    \A i \in DOMAIN users :
        ~(/\ users[i].resetPasswordToken /= Undefined
          /\ users[i].resetPasswordExpire > Now
          /\ users[i].verificationCode /= Undefined
          /\ users[i].verificationCodeExpire > Now)

\* C25: for a request with a cookie token the outcome of the gate is the
\* same whatever the Authorization header carries: the user of the cookie
\* token when that token verifies, is unexpired and names a persisted user,
\* 401 otherwise.  Without a cookie token the outcome is that of the bearer
\* token.
C25_CookieBeforeBearer ==
    [][\A ck \in TokenInputs, b1 \in TokenInputs :
          GetMe(ck, b1) =>
              IF ck /= NoToken
              THEN /\ \A b2 \in TokenInputs : GetMe(ck, b2)
                   /\ IF ck.sig /\ Now < ck.exp /\ ck.id \in DOMAIN users
                      THEN resp' = Response("me", 200, users[ck.id].email)
                      ELSE resp'.op = "gate" /\ resp'.status = 401
              ELSE IF b1 /= NoToken /\ b1.sig /\ Now < b1.exp /\ b1.id \in DOMAIN users
              THEN resp' = Response("me", 200, users[b1.id].email)
              ELSE resp'.op = "gate" /\ resp'.status = 401]_vars

C25_Witness ==
    /\ resp = Response("me", 200, "b@x.com")
    /\ cookie.id = 1 /\ Now < cookie.exp
    /\ Len(users) = 2

\* C26: a kept session token presented to the gate is accepted, for the
\* user it names, exactly while it has not expired, whether or not the
\* client has logged out and whether or not the password of the account
\* was changed or reset since the token was issued.
C26_TokenOutlivesLogout ==
    [][\A s \in Slots :
          PresentKept(s) =>
              IF Now < inflight[s].k
              THEN resp' = Response("me", 200, users[inflight[s].uid].email)
              ELSE resp' = Response("gate", 401, MsgTokenFailed)]_vars

C26_Witness ==
    /\ resp = Response("me", 200, "a@x.com")
    /\ cookie = NoCookie
    /\ \E s \in Slots :
           /\ inflight[s].op = "token"
           /\ inflight[s].pw = Hash("secret1")
           /\ users[inflight[s].uid].password = Hash("secret2")
           /\ users[inflight[s].uid].resetPasswordToken = Undefined
           /\ nextTok > 1

C24_ChangePassword ==
    [][\A current \in PlainPws, newPw \in PwInputs :
          (/\ resp'.op = "change"
           /\ GateOk
           /\ users[cookie.id].password /= Undefined
           /\ ChangePassword(current, newPw)) =>
              LET old == users[cookie.id]
                  new == users'[cookie.id]
              IN  /\ ~matchPassword(old, current) =>
                         resp'.status = 400 /\ new.password = old.password
                  /\ matchPassword(old, current) => new.password = Hash(newPw)
                  /\ new.resetPasswordToken = old.resetPasswordToken
                  /\ new.resetPasswordExpire = old.resetPasswordExpire
                  /\ new.verificationCode = old.verificationCode
                  /\ new.verificationCodeExpire = old.verificationCodeExpire]_vars

\* C30: reset-password with a live code of an account that has a password
\* and a new password shorter than the minimum is answered 400 and leaves
\* the store as it was: the old hash still matches the old password and
\* the presented code still finds the same user.
C30_ShortPasswordKeepsCode ==
    [][\A token \in ResetInputs, newPw \in PlainPws :
          (/\ resp'.op = "reset"
           /\ ResetLookup(token) /= {}
           /\ \A i \in ResetLookup(token) : users[i].password /= Undefined
           /\ PwLen(newPw) < MinPwLen
           /\ ResetPassword(token, newPw)) =>
              /\ resp' = Response("reset", 400, MsgValidation)
              /\ users' = users
              /\ \A i \in ResetLookup(token) :
                     /\ users'[i].password = users[i].password
                     /\ users'[i].resetPasswordToken = users[i].resetPasswordToken
                     /\ users'[i].resetPasswordExpire = users[i].resetPasswordExpire
                     /\ users'[i].verificationCode = users[i].verificationCode
                     /\ users'[i].verificationCodeExpire = users[i].verificationCodeExpire
                     /\ \/ users'[i].resetPasswordToken = token
                           /\ users'[i].resetPasswordExpire > Now
                        \/ users'[i].verificationCode = token
                           /\ users'[i].verificationCodeExpire > Now]_vars

C30_Witness ==
    /\ resp = Response("reset", 400, MsgValidation)
    /\ \E i \in DOMAIN users :
           /\ users[i].password = Hash("secret1")
           /\ matchPassword(users[i], "secret1")
           /\ ResetLookup(users[i].verificationCode) = {i}

\* C29: with every user on a phone number of their own, a reset-password
\* step with a code that user a holds live changes no other user: neither
\* the password nor the codes of any user b other than a.
C29_CodeChangesOnlyItsUser ==
    [][\A token \in ResetInputs : \A a \in DOMAIN users :
          (/\ resp'.op = "reset"
           /\ \A i, j \in DOMAIN users :
                  i /= j => users[i].phoneNumber /= users[j].phoneNumber
           /\ a \in ByResetToken(token) \cup ByVerificationCode(token)
           /\ ResetPassword(token, "secret2")) =>
              \A b \in DOMAIN users \ {a} : users'[b] = users[b]]_vars

\* C28: whenever a registration, a change-password or a reset-password
\* answers success for a supplied password, the stored password of that
\* account is the hash of that password and matchPassword, on which login
\* decides, accepts that password and no other; every other step leaves
\* every stored password as it was.
C28_LoginIffLastSet ==
    [][LET Pws == {"secret1", "secret2", "$2a$secret1"}
           Stored(u, p) ==
               /\ u.password = Hash(p)
               /\ \A q \in Pws : matchPassword(u, q) <=> q = p
       IN  /\ \A pw \in Pws :
                  (/\ resp'.op = "register" /\ resp'.status = 201
                   /\ \/ Register("alice", "a@x.com", pw)
                      \/ RegisterEarlier("bob", "b@x.com", pw)) =>
                      Stored(users'[Len(users')], pw)
           /\ \A current \in Pws, newPw \in Pws :
                  (/\ resp' = Response("change", 200, MsgChanged)
                   /\ ChangePassword(current, newPw)) =>
                      Stored(users'[cookie.id], newPw)
           /\ \A token \in ResetInputs, newPw \in Pws :
                  (/\ resp' = Response("reset", 200, MsgResetDone)
                   /\ ResetPassword(token, newPw)) =>
                      \A i \in ResetLookup(token) :
                          users'[i] /= users[i] => Stored(users'[i], newPw)
           /\ ~(resp'.op \in {"register", "change", "reset"}
                    /\ resp'.status \in {200, 201}) =>
                  \A i \in DOMAIN users :
                      /\ i \in DOMAIN users'
                      /\ users'[i].password = users[i].password]_vars
====
